---------------------------- MODULE Spec2Model ----------------------------
(***************************************************************************)
(* gleip-runner: the control channel (Runner), the HTTP executor           *)
(* (executeHttp1 / doHttp1Request / executeHttp2), the browser channel     *)
(* (BrowserWSS) and the browser session (BrowserSession).                  *)
(*                                                                         *)
(* Node runs one callback at a time: an action is one callback of the      *)
(* event loop together with the promise continuations (microtasks) it      *)
(* releases.  An `await` on engine or network I/O ends an action; the      *)
(* suspended function is a task whose pc names the await it sits on.       *)
(***************************************************************************)
EXTENDS Integers, Sequences, FiniteSets, TLC

\* ------------------------------------------------------------------ bounds
\* Execute messages received over one run (each opens one execution).
MaxJobs == 2
\* Largest maxRedirects option a job carries.
MaxRedirects == 2
\* Largest timeoutMs option a job carries, in ticks of the job's clock.
MaxTimeout == 2
\* browser:start messages received over one run.
MaxStarts == 2
\* browser:stop messages received over one run.
MaxStops == 1
\* browser:input frames the server sends.
MaxInputs == 2
\* browser:start messages received where only starts are sent.
MaxAttach == 3
\* Control frames that are none of execute, browser:start, browser:stop.
MaxOther == 2
\* Ticks of a session's capture timer.
MaxTicks == 2
\* Calls of each public method of a session or a channel made by a caller
\* that drives the objects directly.
MaxCalls == 2

JobIds == 1..MaxJobs

\* ------------------------------------------------------------------ values
\* options.httpVersion; anything but "2" takes the HTTP/1 transport.
Versions == {"1.0", "1.1", "2"}

\* Status codes a server answers with.
Statuses == {200, 302, 303}

\* request.method and request.body of an Execute message; a body that is
\* absent is "none".
Methods == {"GET", "POST"}

Bodies == {"none", "data"}

\* The Location header of a response: absent, present with the empty value,
\* present and parseable, present and not parseable by new URL(loc, base).
LocValues == {"none", "empty", "ok", "bad"}

\* The request and the job options an Execute message carries: a GET
\* without a body or a POST with one.
Cfgs == {c \in [ver : Versions, follow : BOOLEAN, maxRedirects : 0..MaxRedirects, timeoutMs : 1..MaxTimeout, urlOk : BOOLEAN, method : Methods, body : Bodies] : c.method = "GET" <=> c.body = "none"}

\* The options of the jobs that run beside a browser session in Spec.
CoreCfgs == {c \in Cfgs : c.ver = "1.1" /\ c.follow /\ c.maxRedirects = 1 /\ c.timeoutMs = 1 /\ c.urlOk /\ c.method = "POST" /\ c.body = "data"}

NoCfg == [ver |-> "1.1", follow |-> TRUE, maxRedirects |-> 0, timeoutMs |-> 1, urlOk |-> TRUE, method |-> "GET", body |-> "none"]

\* No request written yet.
NoWire == [method |-> "none", body |-> "none"]

NoResponse == [status |-> 0, location |-> "none"]

\* One execution of handleExecute that has not been received yet.
\* wire is the request written last: its method and the body written to it.
NoJob == [phase |-> "none", cfg |-> NoCfg, req |-> "none", hop |-> 0, nreq |-> 0, idle |-> 0, stale |-> -1, clock |-> 0, promise |-> "pending", status |-> 0, loc |-> "none", wire |-> NoWire]

VARIABLES
    ws,        \* Runner.ws: "null", "connecting", "open" (readyState OPEN), "closed"
    out,       \* frames written to the control connection, in order
    quota,     \* control frames the control plane has yet to send, by type
    lastIn,    \* the control frame dispatched last
    proc,      \* "running", or "crashed" when an escaped failure ended the process
    unhandled, \* a promise rejection that nothing handles has occurred
    jobs,      \* jobId -> the execution of that Execute message
    chan,      \* Runner.browserWSS and the fields of that BrowserWSS
    pending,   \* Runner.pendingBrowserStart
    sessions,  \* the BrowserSession objects created so far
    tasks,     \* the suspended async functions of the browser side
    bout       \* frames written to the browser connection, in order

ctrlVars == <<ws, out, quota, lastIn, proc, unhandled>>
browserVars == <<chan, pending, sessions, tasks, bout>>
vars == <<ws, out, quota, lastIn, proc, unhandled, jobs, chan, pending, sessions, tasks, bout>>

\* ----------------------------------------------------------- control channel
Hello == [type |-> "hello", jobId |-> 0, status |-> "none", response |-> NoResponse, error |-> "none"]

SuccessResult(jobId, r) == [type |-> "result", jobId |-> jobId, status |-> "success", response |-> r, error |-> "none"]

ErrorResult(jobId, msg) == [type |-> "result", jobId |-> jobId, status |-> "error", response |-> NoResponse, error |-> msg]

\* Runner.send: the frame is written only while the socket is OPEN.
Send(sock, q, m) == IF sock = "open" THEN Append(q, m) ELSE q

\* As CanDispatch for a "message" handler that awaits handleMessage before it
\* takes the next frame.
CanDispatchSerial == ws = "open" /\ proc = "running" /\ tasks = {} /\ \A j \in JobIds : jobs[j].phase # "inflight"

\* The "message" handler calls handleMessage without awaiting it: a frame is
\* dispatched whenever the socket is open, whatever is still in flight.
CanDispatch == ws = "open" /\ proc = "running"

\* The control plane sends a frame of the given type; it is dispatched.
Dispatched(type, job, sid) ==
    /\ quota[type] > 0
    /\ quota' = [quota EXCEPT ![type] = quota[type] - 1]
    /\ lastIn' = [type |-> type, job |-> job, sid |-> sid]

\* -------------------------------------------------------------- HTTP executor
IsRedirectStatus(st) == st >= 300 /\ st < 400

\* A JavaScript string is truthy unless it is absent or empty.
Truthy(v) == v \notin {"none", "empty"}

\* As FollowsRedirect, with the followRedirects option not consulted.
FollowsRedirectAlways(cfg, st, loc) == IsRedirectStatus(st) /\ Truthy(loc)

\* doHttp1Request line 165.
FollowsRedirect(cfg, st, loc) == cfg.follow /\ IsRedirectStatus(st) /\ Truthy(loc)

\* As RedirectLimitReached, off by one.
RedirectLimitPassed(hop, maxRedirects) == hop > maxRedirects

\* doHttp1Request line 166.
RedirectLimitReached(hop, maxRedirects) == hop >= maxRedirects

\* The header map of the Result: a header with a falsy value is left out.
NormHeader(v) == IF Truthy(v) THEN v ELSE "none"

\* The socket's inactivity timer of a request.
TimeoutFires(idle, timeoutMs) == idle >= timeoutMs

\* As PromisePending for a callback that runs on every event.
PromiseNeverSettles(p) == TRUE

\* A promise settles once: resolve and reject after that do nothing.
PromisePending(p) == p = "pending"

\* As AbortedBy for a handler that tears down a connection pool shared by
\* every job.
AbortedByShared(j) == JobIds

\* The requests the "timeout" handler of job j destroys.
AbortedBy(j) == {j}

\* As WireRequest for a client that, like a browser, turns the request that
\* follows a 303 into a GET without a body.
WireRequestAsBrowser(cfg, st) == IF st = 303 THEN [method |-> "GET", body |-> "none"] ELSE [method |-> cfg.method, body |-> cfg.body]

\* The request doHttp1Request and executeHttp2 write: the method of the
\* Execute message, and its body if it is truthy.  st is the status of the
\* response that led to this request, 0 for the first one; the code does not
\* look at it.
WireRequest(cfg, st) == [method |-> cfg.method, body |-> IF Truthy(cfg.body) THEN cfg.body ELSE "none"]

\* handleExecute resumes from its await with the settled promise, builds the
\* Result and sends it.  jr is the job after the event's own bookkeeping.
Complete(j, jr, res) ==
    IF PromisePending(jobs[j].promise)
    THEN /\ jobs' = [jobs EXCEPT ![j] = [jr EXCEPT !.phase = "done", !.promise = res.status]]
         /\ out' = Send(ws, out, res)
    ELSE /\ jobs' = [jobs EXCEPT ![j] = jr]
         /\ out' = out

\* An Execute frame arrives: handleExecute runs to its await.
HandleExecute(j, cfg) ==
    /\ CanDispatch
    /\ jobs[j].phase = "none"
    /\ \A k \in JobIds : k < j => jobs[k].phase # "none"
    /\ Dispatched("execute", j, "none")
    /\ IF cfg.urlOk
       THEN /\ jobs' = [jobs EXCEPT ![j] = [NoJob EXCEPT !.phase = "inflight", !.cfg = cfg, !.req = "sent", !.nreq = 1, !.wire = WireRequest(cfg, 0)]]
            /\ out' = out
       ELSE /\ jobs' = [jobs EXCEPT ![j] = [NoJob EXCEPT !.phase = "done", !.cfg = cfg, !.promise = "error"]]
            /\ out' = Send(ws, out, ErrorResult(j, "Invalid URL"))
    /\ UNCHANGED <<ws, proc, unhandled>>

\* A redirect is followed without reading the response or destroying the
\* request, so the socket of the hop left behind stays armed with its
\* inactivity timer for as long as the server keeps the connection open.
\* stale is the idle time of the oldest such socket, -1 when there is none;
\* only the oldest matters, because the first timer to fire settles the
\* promise.
StaleAfterRedirect(jr, keptOpen) ==
    IF jr.stale >= 0 THEN jr.stale
    ELSE IF keptOpen /\ PromisePending(jr.promise) THEN 0 ELSE -1

StaleDue(jr) == jr.stale >= 0 /\ TimeoutFires(jr.stale, jr.cfg.timeoutMs)

\* The head of a response arrives on the job's current request.
ResponseHeaders(j, st, loc) ==
    /\ proc = "running"
    /\ jobs[j].req = "sent"
    /\ LET jr == jobs[j] IN
       IF jr.cfg.ver # "2" /\ FollowsRedirect(jr.cfg, st, loc)
       THEN IF RedirectLimitReached(jr.hop, jr.cfg.maxRedirects)
            THEN /\ Complete(j, [jr EXCEPT !.req = "closed"], ErrorResult(j, "Max redirects exceeded"))
                 /\ UNCHANGED proc
            ELSE IF loc = "bad"
                 THEN /\ proc' = "crashed"
                      /\ UNCHANGED <<jobs, out>>
                 ELSE /\ \E keptOpen \in BOOLEAN :
                           jobs' = [jobs EXCEPT ![j] = [jr EXCEPT !.hop = jr.hop + 1, !.nreq = jr.nreq + 1, !.req = "sent", !.idle = 0, !.stale = StaleAfterRedirect(jr, keptOpen), !.wire = WireRequest(jr.cfg, st)]]
                      /\ UNCHANGED <<out, proc>>
       ELSE /\ jobs' = [jobs EXCEPT ![j] = [jr EXCEPT !.req = "body", !.status = st, !.loc = loc, !.idle = 0]]
            /\ UNCHANGED <<out, proc>>
    /\ UNCHANGED <<ws, quota, lastIn, unhandled>>

\* The response ends: the promise resolves with the normalized response.
ResponseEnd(j) ==
    /\ proc = "running"
    /\ jobs[j].req = "body"
    /\ LET jr == jobs[j] IN
       Complete(j, [jr EXCEPT !.req = "closed"], SuccessResult(j, [status |-> jr.status, location |-> NormHeader(jr.loc)]))
    /\ UNCHANGED <<ws, quota, lastIn, proc, unhandled>>

\* The response stream fails while the body is read: res.on("error", reject).
ResponseError(j) ==
    /\ proc = "running"
    /\ jobs[j].req = "body"
    /\ LET jr == jobs[j] IN
       Complete(j, [jr EXCEPT !.req = "closed"], ErrorResult(j, "aborted"))
    /\ UNCHANGED <<ws, quota, lastIn, proc, unhandled>>

\* The request fails (connection refused or reset, or the socket hang-up that
\* follows req.destroy()): req.on("error", reject).
RequestError(j) ==
    /\ proc = "running"
    /\ jobs[j].req \in {"sent", "destroyed"}
    /\ LET jr == jobs[j] IN
       Complete(j, [jr EXCEPT !.req = "closed"], ErrorResult(j, "socket error"))
    /\ UNCHANGED <<ws, quota, lastIn, proc, unhandled>>

\* The inactivity timer of the current request fires: the request is
\* destroyed and the promise rejected.
Timeout(j) ==
    /\ proc = "running"
    /\ jobs[j].req \in {"sent", "body"}
    /\ TimeoutFires(jobs[j].idle, jobs[j].cfg.timeoutMs)
    /\ LET destroyed == [k \in JobIds |-> IF k \in AbortedBy(j) /\ jobs[k].req \in {"sent", "body"} THEN [jobs[k] EXCEPT !.req = "destroyed"] ELSE jobs[k]]
           res == ErrorResult(j, "Request timeout")
       IN  IF PromisePending(jobs[j].promise)
           THEN /\ jobs' = [destroyed EXCEPT ![j] = [destroyed[j] EXCEPT !.phase = "done", !.promise = res.status]]
                /\ out' = Send(ws, out, res)
           ELSE /\ jobs' = destroyed
                /\ out' = out
    /\ UNCHANGED <<ws, quota, lastIn, proc, unhandled>>

\* The inactivity timer of a hop left behind fires while a later hop is in
\* flight: the old request is destroyed and the job's promise rejected
\* through the chain of .catch(reject); the request in flight is not touched.
StaleTimeout(j) ==
    /\ proc = "running"
    /\ jobs[j].req \in {"sent", "body"}
    /\ StaleDue(jobs[j])
    /\ Complete(j, [jobs[j] EXCEPT !.stale = -1], ErrorResult(j, "Request timeout"))
    /\ UNCHANGED <<ws, quota, lastIn, proc, unhandled>>

\* One unit of time passes on the job's connections without activity.
Tick(j) ==
    /\ proc = "running"
    /\ jobs[j].req \in {"sent", "body"}
    /\ ~TimeoutFires(jobs[j].idle, jobs[j].cfg.timeoutMs)
    /\ ~StaleDue(jobs[j])
    /\ jobs' = [jobs EXCEPT ![j] = [jobs[j] EXCEPT !.idle = jobs[j].idle + 1, !.clock = jobs[j].clock + 1, !.stale = IF jobs[j].stale >= 0 THEN jobs[j].stale + 1 ELSE -1]]
    /\ UNCHANGED <<ws, out, quota, lastIn, proc, unhandled>>

\* ------------------------------------------------------- control connection
\* Runner.connect.
Connect ==
    /\ proc = "running"
    /\ ws = "null"
    /\ ws' = "connecting"
    /\ UNCHANGED <<out, quota, lastIn, proc, unhandled, jobs>>

\* "open": sendHello.
WsOpen ==
    /\ proc = "running"
    /\ ws = "connecting"
    /\ ws' = "open"
    /\ out' = Send("open", out, Hello)
    /\ UNCHANGED <<quota, lastIn, proc, unhandled, jobs>>

\* "close": logged.
WsClose ==
    /\ proc = "running"
    /\ ws \in {"connecting", "open"}
    /\ ws' = "closed"
    /\ UNCHANGED <<out, quota, lastIn, proc, unhandled, jobs>>

\* ------------------------------------------------------------ browser side
SessionIds == {"A", "B"}

\* A BrowserSession as its constructor leaves it.  browser, page and timer
\* say whether the field is set (not null); engine is the browser process:
\* "none", "up" once launched, "closed" once browser.close() has finished.
\* ops is what the page has been asked to do, in order; err is the error the
\* session's methods threw last.  onClose says whether a close callback is
\* registered, notified how often it has been invoked; traffic says whether
\* trafficCallback is set; on is the channel whose sendFrame the capture
\* callback calls, 0 before the session has been attached.
NewSession(sid) == [sid |-> sid, browser |-> FALSE, page |-> FALSE, timer |-> FALSE, engine |-> "none", ops |-> <<>>, err |-> "none", onClose |-> FALSE, notified |-> 0, traffic |-> FALSE, on |-> 0]

\* BrowserSession.isActive.
IsActive(sess) == sess.browser /\ sess.page

\* BrowserWSS.isConnected.
IsConnected == chan.ws = "open"

\* As AlreadyActive, testing the pending marker instead of the session.
AlreadyPending == pending # "none"

\* handleBrowserStart line 275: browserWSS?.getSession()?.isActive().
AlreadyActive == chan.exists /\ chan.session # 0 /\ IsActive(sessions[chan.session])

Frame(type, sid, status) == [type |-> type, sid |-> sid, status |-> status, gen |-> chan.gen, n |-> 0]

\* A capture event: the frame of the n-th event the page or the timer raised.
\* Events are numbered by those still to come, so earlier ones carry the
\* larger number.
CaptureFrame(type, sid, status, n) == [Frame(type, sid, status) EXCEPT !.n = n]

\* BrowserWSS.send on the runner's current channel.
BSend(q, m) == IF chan.ws = "open" THEN Append(q, m) ELSE q

\* BrowserWSS.send on the channel object g a suspended method belongs to: a
\* channel that has been replaced or closed is no longer OPEN.
BSendOn(g, q, m) == IF g = chan.gen THEN BSend(q, m) ELSE q

\* As StopCapture for a capture timer that is left running.
StopCaptureNot(ss, i) == ss

\* BrowserSession.stopFrameCapture, and the clearInterval at the top of stop.
StopCapture(ss, i) == [ss EXCEPT ![i].timer = FALSE]

\* As Stopped for a stop that returns before the browser is closed.
StoppedEarly(ss, i) == ss

\* The browser's "disconnected" event, which the engine emits when the
\* browser goes away for whatever reason: the handler start() installed
\* (browser-wss.ts 502-508) invokes the close callback if one is registered.
Disconnected(ss, i) == IF ss[i].onClose /\ ss[i].engine = "up" THEN [ss EXCEPT ![i].notified = ss[i].notified + 1] ELSE ss

\* BrowserSession.stop after its await: browser.close() has finished.
Stopped(ss, i) == [Disconnected(ss, i) EXCEPT ![i].browser = FALSE, ![i].page = FALSE, ![i].engine = "closed"]

\* BrowserSession.startFrameCapture.
StartCapture(ss, i) == [ss EXCEPT ![i].timer = TRUE]

StartTask(s, sid) == [kind |-> "start", pc |-> "launch", s |-> s, old |-> 0, gen |-> 0, sid |-> sid, tag |-> 0]

\* A call of detachSession or cleanup suspended at `await this.session.stop()`;
\* tag tells the calls of different browser:stop frames apart.
StopTask(kind, old, sid, tag) == [kind |-> kind, pc |-> "detach", s |-> 0, old |-> old, gen |-> chan.gen, sid |-> sid, tag |-> tag]

\* A rejection nobody handles: logged by older Node, fatal since Node 15.
Unhandled ==
    /\ unhandled' = TRUE
    /\ proc' \in {"running", "crashed"}

\* ------------------------------------------------- frames of no known type
\* The texts a control frame of no known type can carry: text that is not
\* JSON, the JSON texts null, 7 and [], an object without a type and an
\* object of another type.
Payloads == {"garbage", "null", "number", "array", "untyped", "unknown"}

\* JSON.parse: the value decoded from the text, "throws" for a SyntaxError.
JsonParse(p) ==
    CASE p = "garbage" -> "throws"
      [] p = "null" -> "null"
      [] p = "number" -> "number"
      [] p = "array" -> "array"
      [] OTHER -> "object"

\* message.type in handleMessage: reading a property of null throws a
\* TypeError, every other value has a type or undefined.
TypeOf(v, p) ==
    CASE v = "null" -> "throws"
      [] v = "object" /\ p = "unknown" -> "ping"
      [] OTHER -> "undefined"

\* The "message" handler for a frame of no known type. A SyntaxError of
\* JSON.parse is caught; handleMessage is async and not awaited, so a
\* TypeError in it is a rejection the try block does not see.
HandleOther(p) ==
    /\ CanDispatch
    /\ Dispatched("other", 0, p)
    /\ IF JsonParse(p) # "throws" /\ TypeOf(JsonParse(p), p) = "throws"
       THEN Unhandled
       ELSE UNCHANGED <<proc, unhandled>>
    /\ UNCHANGED <<ws, out, jobs, chan, pending, sessions, tasks, bout>>

\* startBrowser up to its first await: the session is created and
\* chromium.launch is called.
StartBrowser(sid) ==
    /\ sessions' = Append(sessions, NewSession(sid))
    /\ tasks' = tasks \cup {StartTask(Len(sessions) + 1, sid)}

\* browser:start arrives.
HandleBrowserStart(sid) ==
    /\ CanDispatch
    /\ Dispatched("start", 0, sid)
    /\ IF AlreadyActive
       THEN UNCHANGED <<chan, pending, sessions, tasks>>
       ELSE /\ pending' = sid
            /\ IF ~chan.exists
               THEN /\ chan' = [exists |-> TRUE, gen |-> chan.gen + 1, ws |-> "connecting", session |-> 0]
                    /\ UNCHANGED <<sessions, tasks>>
               ELSE IF IsConnected
                    THEN /\ StartBrowser(sid)
                         /\ UNCHANGED chan
                    ELSE UNCHANGED <<chan, sessions, tasks>>
    /\ UNCHANGED <<ws, out, proc, unhandled, jobs, bout>>

\* The browser connection opens: sendAuth, then handleBrowserWSSConnect.
ChanOpen ==
    /\ proc = "running"
    /\ chan.exists
    /\ chan.ws = "connecting"
    /\ chan' = [chan EXCEPT !.ws = "open"]
    /\ bout' = Append(bout, Frame("browser:hello", "none", "none"))
    /\ IF pending # "none"
       THEN StartBrowser(pending)
       ELSE UNCHANGED <<sessions, tasks>>
    /\ UNCHANGED <<ws, out, quota, lastIn, proc, unhandled, jobs, pending>>

\* The browser connection closes: cleanup, then handleBrowserWSSDisconnect.
ChanClose ==
    /\ proc = "running"
    /\ chan.exists
    /\ chan.ws \in {"connecting", "open"}
    /\ chan' = [chan EXCEPT !.exists = FALSE, !.ws = "closed", !.session = 0]
    /\ pending' = "none"
    /\ IF chan.session # 0
       THEN /\ sessions' = StopCapture(sessions, chan.session)
            /\ tasks' = IF sessions[chan.session].browser THEN tasks \cup {StopTask("cleanup", chan.session, "none", 0)} ELSE tasks
       ELSE UNCHANGED <<sessions, tasks>>
    /\ UNCHANGED <<ws, out, quota, lastIn, proc, unhandled, jobs, bout>>

\* attachSession from `this.session = session` on, then the end of
\* startBrowser's try block.  g is the channel attachSession was called on.
Attach(t, g, ss) ==
    /\ chan' = IF g = chan.gen THEN [chan EXCEPT !.session = t.s] ELSE chan
    /\ sessions' = [StartCapture(ss, t.s) EXCEPT ![t.s].on = g]
    /\ bout' = BSendOn(g, bout, Frame("browser:ack", ss[t.s].sid, "started"))
    /\ pending' = "none"
    /\ tasks' = tasks \ {t}
    /\ UNCHANGED <<proc, unhandled>>

\* The catch block of startBrowser.
StartFailed(t, ss) ==
    /\ sessions' = ss
    /\ tasks' = tasks \ {t}
    /\ IF chan.exists
       THEN /\ bout' = BSend(bout, Frame("browser:ack", t.sid, "error"))
            /\ pending' = "none"
            /\ UNCHANGED <<proc, unhandled>>
       ELSE /\ Unhandled
            /\ UNCHANGED <<bout, pending>>
    /\ UNCHANGED chan

\* chromium.launch resolves.
LaunchDone(t) ==
    /\ proc = "running"
    /\ t.kind = "start" /\ t.pc = "launch"
    /\ sessions' = [sessions EXCEPT ![t.s].browser = TRUE, ![t.s].engine = "up"]
    /\ tasks' = (tasks \ {t}) \cup {[t EXCEPT !.pc = "context"]}
    /\ UNCHANGED <<ws, out, quota, lastIn, proc, unhandled, jobs, chan, pending, bout>>

\* browser.newContext resolves.
ContextDone(t) ==
    /\ proc = "running"
    /\ t.kind = "start" /\ t.pc = "context"
    /\ tasks' = (tasks \ {t}) \cup {[t EXCEPT !.pc = "page"]}
    /\ UNCHANGED <<ws, out, quota, lastIn, proc, unhandled, jobs, chan, pending, sessions, bout>>

\* context.newPage resolves: start returns and startBrowser calls
\* attachSession on the runner's current channel.
PageDone(t) ==
    /\ proc = "running"
    /\ t.kind = "start" /\ t.pc = "page"
    /\ LET ss == [sessions EXCEPT ![t.s].page = TRUE] IN
       IF ~chan.exists
       THEN StartFailed(t, ss)
       ELSE IF chan.session # 0
            THEN LET old == chan.session IN
                 IF ss[old].browser
                 THEN /\ sessions' = StopCapture(ss, old)
                      /\ tasks' = (tasks \ {t}) \cup {[t EXCEPT !.pc = "detach", !.old = old, !.gen = chan.gen]}
                      /\ UNCHANGED <<chan, pending, bout, proc, unhandled>>
                 ELSE Attach(t, chan.gen, StopCapture(ss, old))
            ELSE Attach(t, chan.gen, ss)
    /\ UNCHANGED <<ws, out, quota, lastIn, jobs>>

\* One of the awaits of BrowserSession.start rejects.
StartAwaitFails(t) ==
    /\ proc = "running"
    /\ t.kind = "start" /\ t.pc \in {"launch", "context", "page"}
    /\ StartFailed(t, sessions)
    /\ UNCHANGED <<ws, out, quota, lastIn, jobs>>

\* browser.close() of the session being detached finishes inside
\* attachSession: detachSession clears the attachment, then the attach goes on.
AttachDetachDone(t) ==
    /\ proc = "running"
    /\ t.kind = "start" /\ t.pc = "detach"
    /\ Attach(t, t.gen, Stopped(sessions, t.old))
    /\ UNCHANGED <<ws, out, quota, lastIn, jobs>>

\* As StopMatches, without the comparison of the session ids.
StopMatchesAny(sid) == chan.exists /\ chan.session # 0

\* handleBrowserStop lines 325-331: a channel, a session attached to it, and
\* the session's id equal to the frame's.
StopMatches(sid) == chan.exists /\ chan.session # 0 /\ sessions[chan.session].sid = sid

\* browser:stop arrives.
HandleBrowserStop(sid) ==
    /\ CanDispatch
    /\ Dispatched("stop", 0, sid)
    /\ IF StopMatches(sid)
       THEN LET old == chan.session IN
            /\ sessions' = StopCapture(sessions, old)
            /\ IF sessions[old].browser
               THEN /\ tasks' = tasks \cup {StopTask("stop", old, sid, quota.stop)}
                    /\ UNCHANGED <<chan, bout>>
               ELSE /\ chan' = [chan EXCEPT !.session = 0]
                    /\ bout' = BSend(bout, Frame("browser:ack", sid, "stopped"))
                    /\ UNCHANGED tasks
       ELSE UNCHANGED <<chan, sessions, tasks, bout>>
    /\ UNCHANGED <<ws, out, proc, unhandled, jobs, pending>>

\* browser.close() finishes inside handleBrowserStop's detachSession: the
\* attachment is cleared and the Ack is sent on the runner's current channel.
StopDetachDone(t) ==
    /\ proc = "running"
    /\ t.kind = "stop" /\ t.pc = "detach"
    /\ sessions' = Stopped(sessions, t.old)
    /\ chan' = IF t.gen = chan.gen THEN [chan EXCEPT !.session = 0] ELSE chan
    /\ tasks' = tasks \ {t}
    /\ IF chan.exists
       THEN /\ bout' = BSend(bout, Frame("browser:ack", t.sid, "stopped"))
            /\ UNCHANGED <<proc, unhandled>>
       ELSE /\ Unhandled
            /\ UNCHANGED bout
    /\ UNCHANGED <<ws, out, quota, lastIn, jobs, pending>>

\* browser.close() started by cleanup finishes; nothing awaits it.
CleanupStopDone(t) ==
    /\ proc = "running"
    /\ t.kind = "cleanup" /\ t.pc = "detach"
    /\ sessions' = Stopped(sessions, t.old)
    /\ tasks' = tasks \ {t}
    /\ UNCHANGED <<ws, out, quota, lastIn, proc, unhandled, jobs, chan, pending, bout>>

\* The two builds of BrowserWSS: the frame-capture one of browser-wss.ts and
\* the traffic-capture one of runner.ts.
Variants == {"frame", "traffic"}

\* BrowserWSS.handleMessage: the test a browser:input frame has to pass to
\* reach session.handleInput.  The frame build tests the attachment, the
\* session id and isActive (browser-wss.ts 93-97); the traffic build tests
\* the attachment only (runner.ts 461-464).
Forwards(variant, sid) ==
    /\ chan.session # 0
    /\ variant = "frame" => (sessions[chan.session].sid = sid /\ IsActive(sessions[chan.session]))

\* The input actions: one of a single page operation, and scroll, which
\* moves the pointer and then turns the wheel.
InputKinds == {"click", "scroll"}

\* The page operation handleInput calls first.
FirstOp(kind) == IF kind = "scroll" THEN "move" ELSE kind

\* A page operation of input action n, as the page receives it.
PageOp(n, op) == [n |-> n, op |-> op]

\* As HandleInput for a handler that does not look at the page first.
HandleInputBlind(ss, i, kind, n) == [ss EXCEPT ![i].ops = Append(ss[i].ops, PageOp(n, FirstOp(kind)))]

\* BrowserSession.handleInput up to its first await: without a page it
\* throws "No active page"; with one the first page operation is called.
HandleInput(ss, i, kind, n) ==
    IF ss[i].page
    THEN [ss EXCEPT ![i].ops = Append(ss[i].ops, PageOp(n, FirstOp(kind)))]
    ELSE [ss EXCEPT ![i].err = "No active page"]

\* A call of handleInput suspended on the page operation pc.
InputTask(i, kind, n) == [kind |-> "input", pc |-> FirstOp(kind), s |-> i, old |-> 0, gen |-> chan.gen, sid |-> sessions[i].sid, tag |-> n]

\* A browser:input frame for session sid arrives on the browser connection.
\* handleMessage catches what handleInput throws.
HandleBrowserInput(variant, sid, kind) ==
    /\ proc = "running"
    /\ chan.exists /\ IsConnected
    /\ Dispatched("input", 0, sid)
    /\ IF Forwards(variant, sid)
       THEN /\ sessions' = HandleInput(sessions, chan.session, kind, quota.input)
            /\ tasks' = IF sessions[chan.session].page THEN tasks \cup {InputTask(chan.session, kind, quota.input)} ELSE tasks
       ELSE UNCHANGED <<sessions, tasks>>
    /\ UNCHANGED <<ws, out, proc, unhandled, jobs, chan, pending, bout>>

\* The page operation an input action awaits resolves.  After the pointer
\* move of a scroll the wheel is called on this.page, which throws when stop
\* has cleared the page meanwhile; handleMessage catches that.
InputOpDone(t) ==
    /\ proc = "running"
    /\ t.kind = "input"
    /\ IF t.pc = "move" /\ sessions[t.s].page
       THEN /\ sessions' = [sessions EXCEPT ![t.s].ops = Append(sessions[t.s].ops, PageOp(t.tag, "wheel"))]
            /\ tasks' = (tasks \ {t}) \cup {[t EXCEPT !.pc = "wheel"]}
       ELSE /\ tasks' = tasks \ {t}
            /\ UNCHANGED sessions
    /\ UNCHANGED <<ws, out, quota, lastIn, proc, unhandled, jobs, chan, pending, bout>>

\* The page operation an input action awaits rejects because the browser is
\* closing or closed; handleMessage catches and logs the rejection.
InputOpFails(t) ==
    /\ proc = "running"
    /\ t.kind = "input"
    /\ ~sessions[t.s].page \/ \E u \in tasks : u.pc = "detach" /\ u.old = t.s
    /\ tasks' = tasks \ {t}
    /\ UNCHANGED <<ws, out, quota, lastIn, proc, unhandled, jobs, chan, pending, sessions, bout>>

\* ------------------------------------------------ the objects driven directly
\* A caller calls a public method of session i.
Called(method, i) == Dispatched(method, i, sessions[i].sid)

\* new BrowserSession(sid).
Construct(sid) ==
    /\ proc = "running"
    /\ Len(sessions) < 1
    /\ sessions' = Append(sessions, NewSession(sid))
    /\ UNCHANGED <<ws, out, quota, lastIn, proc, unhandled, jobs, chan, pending, tasks, bout>>

\* A call of BrowserSession.start suspended on the await pc.
SessionStartTask(i) == [kind |-> "sstart", pc |-> "launch", s |-> i, old |-> 0, gen |-> 0, sid |-> sessions[i].sid, tag |-> quota.start]

\* BrowserSession.start up to its first await: it throws when the session
\* holds a browser, and calls chromium.launch otherwise.
SessionStart(i) ==
    /\ proc = "running"
    /\ Called("start", i)
    /\ IF sessions[i].browser
       THEN /\ sessions' = [sessions EXCEPT ![i].err = "Browser already started"]
            /\ UNCHANGED tasks
       ELSE /\ tasks' = tasks \cup {SessionStartTask(i)}
            /\ UNCHANGED sessions
    /\ UNCHANGED <<ws, out, proc, unhandled, jobs, chan, pending, bout>>

\* chromium.launch resolves: this.browser is assigned.
SessionLaunchDone(t) ==
    /\ proc = "running"
    /\ t.kind = "sstart" /\ t.pc = "launch"
    /\ sessions' = [sessions EXCEPT ![t.s].browser = TRUE, ![t.s].engine = "up"]
    /\ tasks' = (tasks \ {t}) \cup {[t EXCEPT !.pc = "context"]}
    /\ UNCHANGED <<ws, out, quota, lastIn, proc, unhandled, jobs, chan, pending, bout>>

\* browser.newContext resolves.
SessionContextDone(t) ==
    /\ proc = "running"
    /\ t.kind = "sstart" /\ t.pc = "context"
    /\ sessions[t.s].engine = "up"
    /\ tasks' = (tasks \ {t}) \cup {[t EXCEPT !.pc = "page"]}
    /\ UNCHANGED <<ws, out, quota, lastIn, proc, unhandled, jobs, chan, pending, sessions, bout>>

\* context.newPage resolves: this.page is assigned and start returns.
SessionPageDone(t) ==
    /\ proc = "running"
    /\ t.kind = "sstart" /\ t.pc = "page"
    /\ sessions[t.s].engine = "up"
    /\ sessions' = [sessions EXCEPT ![t.s].page = TRUE]
    /\ tasks' = tasks \ {t}
    /\ UNCHANGED <<ws, out, quota, lastIn, proc, unhandled, jobs, chan, pending, bout>>

\* One of the awaits of start rejects: start rejects with that error and
\* leaves the fields as they are.
SessionStartFails(t) ==
    /\ proc = "running"
    /\ t.kind = "sstart"
    /\ sessions' = [sessions EXCEPT ![t.s].err = "start failed"]
    /\ tasks' = tasks \ {t}
    /\ UNCHANGED <<ws, out, quota, lastIn, proc, unhandled, jobs, chan, pending, bout>>

\* A call of BrowserSession.stop suspended on browser.close().
SessionStopTask(i) == [kind |-> "sstop", pc |-> "detach", s |-> 0, old |-> i, gen |-> 0, sid |-> sessions[i].sid, tag |-> quota.stop]

\* BrowserSession.stop up to its await: the capture timer is cleared, and
\* browser.close() is called if the session holds a browser.
SessionStop(i) ==
    /\ proc = "running"
    /\ Called("stop", i)
    /\ sessions' = StopCapture(sessions, i)
    /\ tasks' = IF sessions[i].browser THEN tasks \cup {SessionStopTask(i)} ELSE tasks
    /\ UNCHANGED <<ws, out, proc, unhandled, jobs, chan, pending, bout>>

\* browser.close() resolves: stop clears browser and page and returns.
SessionStopDone(t) ==
    /\ proc = "running"
    /\ t.kind = "sstop"
    /\ sessions' = Stopped(sessions, t.old)
    /\ tasks' = tasks \ {t}
    /\ UNCHANGED <<ws, out, quota, lastIn, proc, unhandled, jobs, chan, pending, bout>>

\* BrowserSession.startFrameCapture called by the owner.
StartFrameCapture(i) ==
    /\ proc = "running"
    /\ ~sessions[i].timer
    /\ sessions' = StartCapture(sessions, i)
    /\ UNCHANGED <<ws, out, quota, lastIn, proc, unhandled, jobs, chan, pending, tasks, bout>>

\* BrowserSession.setOnBrowserClose.
SetOnBrowserClose(i) ==
    /\ proc = "running"
    /\ ~sessions[i].onClose
    /\ sessions' = [sessions EXCEPT ![i].onClose = TRUE]
    /\ UNCHANGED <<ws, out, quota, lastIn, proc, unhandled, jobs, chan, pending, tasks, bout>>

\* The browser is terminated by an outside actor: the engine emits
\* "disconnected"; nothing clears the session's browser and page.
BrowserTerminated(i) ==
    /\ proc = "running"
    /\ sessions[i].engine = "up"
    /\ sessions' = [Disconnected(sessions, i) EXCEPT ![i].engine = "gone"]
    /\ UNCHANGED <<ws, out, quota, lastIn, proc, unhandled, jobs, chan, pending, tasks, bout>>

\* new BrowserWSS(...) and connect().
ChannelConnect ==
    /\ proc = "running"
    /\ ~chan.exists /\ chan.gen < 1
    /\ chan' = [exists |-> TRUE, gen |-> chan.gen + 1, ws |-> "connecting", session |-> 0]
    /\ UNCHANGED <<ws, out, quota, lastIn, proc, unhandled, jobs, pending, sessions, tasks, bout>>

\* BrowserWSS.attachSession called with session i: up to the await of
\* detachSession if a session is attached, to its end otherwise.
AttachSession(i) ==
    /\ proc = "running"
    /\ chan.exists
    /\ Called("attach", i)
    /\ LET t == StartTask(i, sessions[i].sid) IN
       IF chan.session # 0 /\ sessions[chan.session].browser
       THEN /\ sessions' = StopCapture(sessions, chan.session)
            /\ tasks' = tasks \cup {[t EXCEPT !.pc = "detach", !.old = chan.session, !.gen = chan.gen]}
            /\ UNCHANGED <<chan, pending, bout, proc, unhandled>>
       ELSE Attach(t, chan.gen, IF chan.session # 0 THEN StopCapture(sessions, chan.session) ELSE sessions)
    /\ UNCHANGED <<ws, out, jobs>>

\* BrowserWSS.detachSession called by the owner: up to the await of
\* session.stop().
DetachSession ==
    /\ proc = "running"
    /\ chan.exists
    /\ Dispatched("detach", 0, "none")
    /\ IF chan.session # 0
       THEN /\ sessions' = StopCapture(sessions, chan.session)
            /\ IF sessions[chan.session].browser
               THEN /\ tasks' = tasks \cup {StopTask("detach", chan.session, sessions[chan.session].sid, quota.detach)}
                    /\ UNCHANGED chan
               ELSE /\ chan' = [chan EXCEPT !.session = 0]
                    /\ UNCHANGED tasks
       ELSE UNCHANGED <<chan, sessions, tasks>>
    /\ UNCHANGED <<ws, out, proc, unhandled, jobs, pending, bout>>

\* As Detached for a detachSession that leaves this.session as it is.
DetachedNot(c) == c

\* `this.session = null` at the end of detachSession.
Detached(c) == [c EXCEPT !.session = 0]

\* browser.close() finishes inside detachSession: the attachment is cleared.
DetachDone(t) ==
    /\ proc = "running"
    /\ t.kind = "detach"
    /\ sessions' = Stopped(sessions, t.old)
    /\ chan' = IF t.gen = chan.gen THEN Detached(chan) ELSE chan
    /\ tasks' = tasks \ {t}
    /\ UNCHANGED <<ws, out, quota, lastIn, proc, unhandled, jobs, pending, bout>>

\* ------------------------------------------------------- traffic capture
\* BrowserSession.stopTrafficCapture.
StopTrafficCapture(ss, i) == [ss EXCEPT ![i].traffic = FALSE]

\* BrowserSession.startTrafficCapture: it throws without a page, and sets
\* trafficCallback and the page's listeners otherwise.
StartTrafficCapture(ss, i) ==
    IF ss[i].page
    THEN [ss EXCEPT ![i].traffic = TRUE]
    ELSE [ss EXCEPT ![i].err = "No active page"]

\* attachSession of the traffic build from `this.session = session` on.
AttachTrafficTo(i, g, ss) ==
    /\ chan' = IF g = chan.gen THEN [chan EXCEPT !.session = i] ELSE chan
    /\ sessions' = StartTrafficCapture(ss, i)

\* attachSession of the traffic build called with session i.
AttachTraffic(i) ==
    /\ proc = "running"
    /\ chan.exists
    /\ Called("attach", i)
    /\ IF chan.session # 0 /\ sessions[chan.session].browser
       THEN /\ sessions' = StopTrafficCapture(sessions, chan.session)
            /\ tasks' = tasks \cup {[kind |-> "tattach", pc |-> "detach", s |-> i, old |-> chan.session, gen |-> chan.gen, sid |-> sessions[i].sid, tag |-> quota.attach]}
            /\ UNCHANGED chan
       ELSE /\ AttachTrafficTo(i, chan.gen, IF chan.session # 0 THEN StopTrafficCapture(sessions, chan.session) ELSE sessions)
            /\ UNCHANGED tasks
    /\ UNCHANGED <<ws, out, proc, unhandled, jobs, pending, bout>>

\* browser.close() of the session being detached finishes inside
\* attachSession of the traffic build.
AttachTrafficDetachDone(t) ==
    /\ proc = "running"
    /\ t.kind = "tattach"
    /\ AttachTrafficTo(t.s, t.gen, Stopped(sessions, t.old))
    /\ tasks' = tasks \ {t}
    /\ UNCHANGED <<ws, out, quota, lastIn, proc, unhandled, jobs, pending, bout>>

\* detachSession of the traffic build, up to the await of session.stop().
DetachTraffic ==
    /\ proc = "running"
    /\ chan.exists
    /\ Dispatched("detach", 0, "none")
    /\ IF chan.session # 0
       THEN /\ sessions' = StopTrafficCapture(sessions, chan.session)
            /\ IF sessions[chan.session].browser
               THEN /\ tasks' = tasks \cup {StopTask("detach", chan.session, sessions[chan.session].sid, quota.detach)}
                    /\ UNCHANGED chan
               ELSE /\ chan' = [chan EXCEPT !.session = 0]
                    /\ UNCHANGED tasks
       ELSE UNCHANGED <<chan, sessions, tasks>>
    /\ UNCHANGED <<ws, out, proc, unhandled, jobs, pending, bout>>

\* The page emits "response": the handler returns if trafficCallback is
\* null and otherwise goes on to `await response.body()`.
PageResponse(i) ==
    /\ proc = "running"
    /\ sessions[i].page
    /\ Dispatched("response", i, sessions[i].sid)
    /\ tasks' = IF sessions[i].traffic
                THEN tasks \cup {[kind |-> "traffic", pc |-> "body", s |-> i, old |-> 0, gen |-> chan.gen, sid |-> sessions[i].sid, tag |-> quota.response]}
                ELSE tasks
    /\ UNCHANGED <<ws, out, proc, unhandled, jobs, chan, pending, sessions, bout>>

\* response.body() settles (a rejection is caught): the handler builds the
\* event and calls this.trafficCallback, which is sendTraffic of the channel
\* the session was attached on; calling it when it is null throws inside
\* the async handler, whose promise nobody holds.
BodyDone(t) ==
    /\ proc = "running"
    /\ t.kind = "traffic"
    /\ tasks' = tasks \ {t}
    /\ IF sessions[t.s].traffic
       THEN /\ bout' = BSendOn(t.gen, bout, CaptureFrame("browser:traffic", t.sid, "none", t.tag))
            /\ UNCHANGED <<proc, unhandled>>
       ELSE /\ Unhandled
            /\ UNCHANGED bout
    /\ UNCHANGED <<ws, out, quota, lastIn, jobs, chan, pending, sessions>>

\* The page emits "requestfailed": the handler returns if trafficCallback is
\* null and otherwise sends the event at once.
RequestFailed(i) ==
    /\ proc = "running"
    /\ sessions[i].page
    /\ Dispatched("response", i, sessions[i].sid)
    /\ bout' = IF sessions[i].traffic THEN BSend(bout, CaptureFrame("browser:traffic", sessions[i].sid, "error", quota.response)) ELSE bout
    /\ UNCHANGED <<ws, out, proc, unhandled, jobs, chan, pending, sessions, tasks>>

\* --------------------------------------------------------- frame capture
\* The capture timer of session i fires: the interval callback calls
\* captureFrame, which throws without a page (caught and logged) and
\* otherwise waits for page.screenshot.
CaptureTick(i) ==
    /\ proc = "running"
    /\ sessions[i].timer
    /\ Dispatched("tick", i, sessions[i].sid)
    /\ tasks' = IF sessions[i].page
                THEN tasks \cup {[kind |-> "frame", pc |-> "shot", s |-> i, old |-> 0, gen |-> sessions[i].on, sid |-> sessions[i].sid, tag |-> quota.tick]}
                ELSE tasks
    /\ UNCHANGED <<ws, out, proc, unhandled, jobs, chan, pending, sessions, bout>>

\* page.screenshot resolves: the interval callback hands the frame to the
\* callback attachSession gave it, which is sendFrame of that channel.
ScreenshotDone(t) ==
    /\ proc = "running"
    /\ t.kind = "frame"
    /\ sessions[t.s].engine = "up"
    /\ tasks' = tasks \ {t}
    /\ bout' = BSendOn(t.gen, bout, CaptureFrame("browser:frame", t.sid, "none", t.tag))
    /\ UNCHANGED <<ws, out, quota, lastIn, proc, unhandled, jobs, chan, pending, sessions>>

\* page.screenshot rejects because the browser is closing or closed; the
\* interval callback catches and logs it.
ScreenshotFails(t) ==
    /\ proc = "running"
    /\ t.kind = "frame"
    /\ sessions[t.s].engine # "up" \/ \E u \in tasks : u.pc = "detach" /\ u.old = t.s
    /\ tasks' = tasks \ {t}
    /\ UNCHANGED <<ws, out, quota, lastIn, proc, unhandled, jobs, chan, pending, sessions, bout>>

\* As ChanTornDown for a disconnect that leaves the browser channel alone.
ChanLeftInPlace == chan

\* The runner's browser channel after BrowserWSS.disconnect and
\* `this.browserWSS = null`: no attachment, no socket, no channel.
ChanTornDown == [chan EXCEPT !.exists = FALSE, !.ws = "closed", !.session = 0]

\* Runner.disconnect, lines 361-364: the browser channel, if there is one,
\* runs cleanup (capture stopped, session.stop() called and not awaited,
\* attachment cleared), closes its socket and is dropped.  The function is
\* synchronous: until its second half has run nothing else does.
DisconnectBrowser ==
    /\ proc = "running"
    /\ proc' = "disconnecting"
    /\ IF chan.exists
       THEN /\ chan' = ChanTornDown
            /\ IF chan.session # 0
               THEN /\ sessions' = StopCapture(sessions, chan.session)
                    /\ tasks' = IF sessions[chan.session].browser THEN tasks \cup {StopTask("cleanup", chan.session, "none", 0)} ELSE tasks
               ELSE UNCHANGED <<sessions, tasks>>
       ELSE UNCHANGED <<chan, sessions, tasks>>
    /\ UNCHANGED <<ws, out, quota, lastIn, unhandled, jobs, pending, bout>>

\* Runner.disconnect, lines 365-368: the primary socket is closed and the
\* field cleared; the signal handler that called disconnect then exits.
DisconnectPrimary ==
    /\ proc = "disconnecting"
    /\ ws' = "null"
    /\ proc' = "exited"
    /\ UNCHANGED <<out, quota, lastIn, unhandled, jobs, chan, pending, sessions, tasks, bout>>

\* ------------------------------------------------------------ specification
NoChan == [exists |-> FALSE, gen |-> 0, ws |-> "null", session |-> 0]

\* The runner after construction, before a control plane that will send the
\* frames of `traffic`.
InitWith(traffic) ==
    /\ ws = "null"
    /\ out = <<>>
    /\ quota = traffic
    /\ lastIn = [type |-> "none", job |-> 0, sid |-> "none"]
    /\ proc = "running"
    /\ unhandled = FALSE
    /\ jobs = [j \in JobIds |-> NoJob]
    /\ chan = NoChan
    /\ pending = "none"
    /\ sessions = <<>>
    /\ tasks = {}
    /\ bout = <<>>

\* Response heads: a status code and a Location header.
Heads == Statuses \X LocValues

\* The response heads the servers of Spec answer with.
CoreHeads == {<<200, "none">>}

\* A final answer, a redirect, and a redirect to a URL that does not parse.
JobHeads == {<<200, "none">>, <<302, "ok">>, <<302, "bad">>}

HttpStep(C, H) ==
    \/ \E j \in JobIds, cfg \in C : HandleExecute(j, cfg)
    \/ \E j \in JobIds, h \in H : ResponseHeaders(j, h[1], h[2])
    \/ \E j \in JobIds : ResponseEnd(j)
    \/ \E j \in JobIds : ResponseError(j)
    \/ \E j \in JobIds : RequestError(j)
    \/ \E j \in JobIds : Timeout(j)
    \/ \E j \in JobIds : Tick(j)

\* What only a job that has followed a redirect can do.
HopStep == \E j \in JobIds : StaleTimeout(j)

BrowserStep ==
    \/ \E sid \in SessionIds : HandleBrowserStart(sid)
    \/ \E sid \in SessionIds : HandleBrowserStop(sid)
    \/ ChanOpen
    \/ ChanClose
    \/ \E t \in tasks : LaunchDone(t)
    \/ \E t \in tasks : ContextDone(t)
    \/ \E t \in tasks : PageDone(t)
    \/ \E t \in tasks : StartAwaitFails(t)
    \/ \E t \in tasks : StopDetachDone(t)
    \/ \E t \in tasks : CleanupStopDone(t)

\* What only a second session can do: attach where a session is attached.
ReplaceStep == \E t \in tasks : AttachDetachDone(t)

\* The HTTP executor alone: one execution, every option.
HttpNext ==
    \/ Connect /\ UNCHANGED browserVars
    \/ WsOpen /\ UNCHANGED browserVars
    \/ WsClose /\ UNCHANGED browserVars
    \/ HttpStep(Cfgs, Heads) /\ UNCHANGED browserVars
    \/ HopStep /\ UNCHANGED browserVars

HttpSpec == InitWith([execute |-> 1, start |-> 0, stop |-> 0, input |-> 0]) /\ [][HttpNext]_vars

\* SIGINT or SIGTERM: the process calls Runner.disconnect and exits.
ShutdownStep == DisconnectBrowser \/ DisconnectPrimary

\* What the server sends on the browser connection.
InputStep ==
    \/ \E variant \in Variants, sid \in SessionIds, kind \in InputKinds : HandleBrowserInput(variant, sid, kind)
    \/ \E t \in tasks : InputOpDone(t)
    \/ \E t \in tasks : InputOpFails(t)

\* BrowserSession.start, from the call to its return.
SessionStarting ==
    \/ \E sid \in SessionIds : Construct(sid)
    \/ \E i \in 1..Len(sessions) : SessionStart(i)
    \/ \E t \in tasks : SessionLaunchDone(t)
    \/ \E t \in tasks : SessionContextDone(t)
    \/ \E t \in tasks : SessionPageDone(t)

\* A BrowserSession driven through its public methods.
SessionNext ==
    \/ SessionStarting
    \/ \E t \in tasks : SessionStartFails(t)
    \/ \E i \in 1..Len(sessions) : SessionStop(i)
    \/ \E t \in tasks : SessionStopDone(t)
    \/ \E i \in 1..Len(sessions) : SetOnBrowserClose(i)
    \/ \E i \in 1..Len(sessions) : BrowserTerminated(i)
    \/ \E i \in 1..Len(sessions) : StartFrameCapture(i)

SessionSpec == InitWith([execute |-> 0, start |-> MaxCalls, stop |-> MaxCalls, input |-> 0]) /\ [][SessionNext]_vars

\* A BrowserWSS driven through its public methods, with one session.
ChannelNext ==
    \/ SessionStarting
    \/ ChannelConnect
    \/ ChanOpen
    \/ ChanClose
    \/ \E i \in 1..Len(sessions) : AttachSession(i)
    \/ DetachSession
    \/ \E t \in tasks : DetachDone(t)
    \/ \E t \in tasks : CleanupStopDone(t)
    \/ \E i \in 1..Len(sessions) : SessionStop(i)
    \/ \E t \in tasks : SessionStopDone(t)
    \/ InputStep

ChannelSpec == InitWith([execute |-> 0, start |-> 1, stop |-> 1, input |-> 1, attach |-> 1, detach |-> MaxCalls]) /\ [][ChannelNext]_vars

\* The traffic build of BrowserWSS driven through its public methods, with
\* the page of its session loading resources.
TrafficNext ==
    \/ SessionStarting
    \/ ChannelConnect
    \/ ChanOpen
    \/ \E i \in 1..Len(sessions) : AttachTraffic(i)
    \/ \E t \in tasks : AttachTrafficDetachDone(t)
    \/ DetachTraffic
    \/ \E t \in tasks : DetachDone(t)
    \/ \E i \in 1..Len(sessions) : PageResponse(i)
    \/ \E t \in tasks : BodyDone(t)
    \/ \E i \in 1..Len(sessions) : RequestFailed(i)

TrafficSpec == InitWith([execute |-> 0, start |-> 1, stop |-> 0, input |-> 0, attach |-> MaxCalls, detach |-> 1, response |-> MaxCalls]) /\ [][TrafficNext]_vars

\* The browser side alone.
BrowserNext ==
    \/ Connect /\ UNCHANGED browserVars
    \/ WsOpen /\ UNCHANGED browserVars
    \/ WsClose /\ UNCHANGED browserVars
    \/ BrowserStep
    \/ ReplaceStep
    \/ ShutdownStep

BrowserSpec == InitWith([execute |-> 0, start |-> MaxStarts, stop |-> MaxStops, input |-> 0]) /\ [][BrowserNext]_vars

\* Sessions started one after the other on a browser connection that stays
\* up, with an engine that does not fail.
AttachNext ==
    \/ Connect /\ UNCHANGED browserVars
    \/ WsOpen /\ UNCHANGED browserVars
    \/ \E sid \in SessionIds : HandleBrowserStart(sid)
    \/ ChanOpen
    \/ \E t \in tasks : LaunchDone(t)
    \/ \E t \in tasks : ContextDone(t)
    \/ \E t \in tasks : PageDone(t)
    \/ \E t \in tasks : AttachDetachDone(t)

AttachSpec == InitWith([execute |-> 0, start |-> MaxAttach, stop |-> 0, input |-> 0]) /\ [][AttachNext]_vars

\* What the capture timer of a session does.
FrameStep ==
    \/ \E i \in 1..Len(sessions) : CaptureTick(i)
    \/ \E t \in tasks : ScreenshotDone(t)
    \/ \E t \in tasks : ScreenshotFails(t)

\* One session and the frames captured from it.
FrameNext ==
    \/ Connect /\ UNCHANGED browserVars
    \/ WsOpen /\ UNCHANGED browserVars
    \/ WsClose /\ UNCHANGED browserVars
    \/ BrowserStep
    \/ FrameStep

FrameSpec == InitWith([execute |-> 0, start |-> 1, stop |-> 1, input |-> 0, tick |-> MaxTicks]) /\ [][FrameNext]_vars

\* One session and the input frames sent to it.
InputNext ==
    \/ Connect /\ UNCHANGED browserVars
    \/ WsOpen /\ UNCHANGED browserVars
    \/ WsClose /\ UNCHANGED browserVars
    \/ BrowserStep
    \/ InputStep

InputSpec == InitWith([execute |-> 0, start |-> 1, stop |-> 1, input |-> MaxInputs]) /\ [][InputNext]_vars

\* The runner: concurrent jobs beside the browser side.
Next ==
    \/ Connect /\ UNCHANGED browserVars
    \/ WsOpen /\ UNCHANGED browserVars
    \/ WsClose /\ UNCHANGED browserVars
    \/ HttpStep(CoreCfgs, CoreHeads) /\ UNCHANGED browserVars
    \/ BrowserStep

Spec == InitWith([execute |-> MaxJobs, start |-> 1, stop |-> 1, input |-> 0]) /\ [][Next]_vars

\* Frames of no known type between the valid ones.
OtherStep == \E p \in Payloads : HandleOther(p)

ControlNext ==
    \/ Next
    \/ OtherStep

ControlSpec == InitWith([execute |-> 1, start |-> 1, stop |-> 1, input |-> 0, other |-> MaxOther]) /\ [][ControlNext]_vars

\* Concurrent jobs against servers that answer with any head.
JobsNext ==
    \/ Connect /\ UNCHANGED browserVars
    \/ WsOpen /\ UNCHANGED browserVars
    \/ WsClose /\ UNCHANGED browserVars
    \/ HttpStep(CoreCfgs, JobHeads) /\ UNCHANGED browserVars
    \/ HopStep /\ UNCHANGED browserVars

\* What the event loop and the servers do to a request that is in flight:
\* an answer, a failure, or the passing of time up to the timeout.
JobProgress ==
    /\ \E j \in JobIds :
          \/ \E h \in JobHeads : ResponseHeaders(j, h[1], h[2])
          \/ ResponseEnd(j)
          \/ ResponseError(j)
          \/ RequestError(j)
          \/ Timeout(j)
          \/ StaleTimeout(j)
          \/ Tick(j)
    /\ UNCHANGED browserVars

\* The event loop runs every callback whose event has occurred, and a request
\* in flight is answered, fails or times out.
FairJobsSpec == InitWith([execute |-> MaxJobs, start |-> 0, stop |-> 0, input |-> 0]) /\ [][JobsNext]_vars /\ WF_vars(JobProgress)

\* Two starts and a stop, without the shutdown of the runner.
StartsNext ==
    \/ Connect /\ UNCHANGED browserVars
    \/ WsOpen /\ UNCHANGED browserVars
    \/ WsClose /\ UNCHANGED browserVars
    \/ BrowserStep
    \/ ReplaceStep

\* What the event loop does on the browser side without a new frame from
\* the control plane: a connection attempt that succeeds opens the channel,
\* and an awaited browser operation that can resolve resolves.
BrowserProgress ==
    \/ ChanOpen
    \/ \E t \in tasks : LaunchDone(t)
    \/ \E t \in tasks : ContextDone(t)
    \/ \E t \in tasks : PageDone(t)
    \/ \E t \in tasks : StopDetachDone(t)
    \/ \E t \in tasks : CleanupStopDone(t)
    \/ \E t \in tasks : AttachDetachDone(t)

\* The event loop runs every callback whose event has occurred: a channel
\* that is connecting and the awaits of the browser side do not hang.
FairStartsSpec == InitWith([execute |-> 0, start |-> MaxStarts, stop |-> MaxStops, input |-> 0]) /\ [][StartsNext]_vars /\ WF_vars(BrowserProgress)

\* ------------------------------------------------------------------ claims
\* The positions in the outbound stream of the Results of job j.
ResultsOf(j) == {i \in 1..Len(out) : out[i].type = "result" /\ out[i].jobId = j}

ErrorsOf(j) == {out[i].error : i \in ResultsOf(j)}

InFlight(j) == jobs[j].phase = "inflight"

WellFormedResult(m) ==
    \/ m.status = "success" /\ m.response # NoResponse /\ m.error = "none"
    \/ m.status = "error" /\ m.error # "none" /\ m.response = NoResponse

\* C1: for every job the runner emits at most one Result, and a Result is
\* either a success carrying a response and no error, or an error carrying a
\* message and no response.
C1_AtMostOneResult ==
    \A j \in JobIds :
        /\ Cardinality(ResultsOf(j)) <= 1
        /\ \A i \in ResultsOf(j) : WellFormedResult(out[i])

\* A job on which both the timeout and the socket error that follows the
\* destroyed request have fired, with its one Result emitted.
C1_TimeoutThenError ==
    \E j \in JobIds : jobs[j].req = "closed" /\ "Request timeout" \in ErrorsOf(j)

\* C2: every Execute the runner has received is eventually followed by the
\* emission of its Result.  Stated for the runs in which the control
\* connection stays open, which the claim includes.
C2_EveryExecuteGetsResult ==
    \A j \in JobIds : (jobs[j].phase # "none") ~> (ResultsOf(j) # {} \/ ws # "open")

\* C3: while a job is in flight the inbound dispatch is not blocked: the next
\* Execute, browser:start or browser:stop frame is taken as soon as it
\* arrives on the open control connection.
C3_DispatchNotBlocked ==
    ((\E j \in JobIds : InFlight(j)) /\ ws = "open" /\ proc = "running") =>
        /\ (quota.execute > 0 /\ (\E j \in JobIds : jobs[j].phase = "none")) => ENABLED (\E j \in JobIds, cfg \in CoreCfgs : HandleExecute(j, cfg))
        /\ quota.start > 0 => ENABLED (\E sid \in SessionIds : HandleBrowserStart(sid))
        /\ quota.stop > 0 => ENABLED (\E sid \in SessionIds : HandleBrowserStop(sid))

\* Job 1 is still in flight although job 2, a browser:start and a
\* browser:stop, all received after it, have run to completion.
C3_LaterWorkDoneFirst ==
    /\ InFlight(1)
    /\ ResultsOf(2) # {}
    /\ \E i, k \in 1..Len(bout) : i < k /\ bout[i].status = "started" /\ bout[k].status = "stopped"

C6_SingleDeadline ==
    \A j \in JobIds : jobs[j].hop > 0 => jobs[j].clock <= jobs[j].cfg.timeoutMs

\* C7: the timeout of job j fails job j with an error Result and touches
\* nothing else: every other job and the whole browser side are unchanged.
C7_TimeoutCancelsOnlyThatJob ==
    [][\A j \in JobIds :
          (jobs[j].req \in {"sent", "body"} /\ jobs'[j].req = "destroyed") =>
              /\ jobs'[j].phase = "done"
              /\ jobs'[j].promise = "error"
              /\ out' = IF jobs[j].promise = "pending" THEN Send(ws, out, ErrorResult(j, "Request timeout")) ELSE out
              /\ \A k \in JobIds \ {j} : jobs'[k] = jobs[k]
              /\ UNCHANGED browserVars]_vars

\* A job has timed out while another job is in flight and an Active session
\* is attached and capturing.
C7_TimeoutBesideLiveWork ==
    \E j, k \in JobIds :
        /\ "Request timeout" \in ErrorsOf(j)
        /\ jobs[k].req \in {"sent", "body"}
        /\ chan.exists /\ chan.session # 0
        /\ IsActive(sessions[chan.session]) /\ sessions[chan.session].timer

\* C8: no failure of the HTTP execution escapes handleExecute: the process
\* keeps running and a failed job has its error Result.
C8_FailuresBecomeResults ==
    /\ proc = "running"
    /\ \A j \in JobIds : (jobs[j].promise = "error" /\ ws = "open") => ErrorsOf(j) # {}

ActiveSessions == {i \in 1..Len(sessions) : IsActive(sessions[i])}

\* C9: at most one browser session is Active at any time.
C9_AtMostOneActive == Cardinality(ActiveSessions) <= 1

\* C10: a browser:start received while a session is attached and Active
\* changes nothing: no Ack, no new session, the pending marker and the
\* attached session as they were.
C10_DuplicateStartIgnored ==
    [][(/\ quota'.start = quota.start - 1
        /\ chan.exists /\ chan.session # 0
        /\ sessions[chan.session].browser /\ sessions[chan.session].page) =>
           UNCHANGED <<chan, pending, sessions, tasks, bout, ws, out, proc, unhandled, jobs>>]_vars

\* browser:start for B has been received with the session of A attached and
\* Active, and the session of A is the only one ever created.
C10_StartWhileActive ==
    /\ lastIn.type = "start" /\ lastIn.sid = "B"
    /\ Len(sessions) = 1 /\ sessions[1].sid = "A" /\ IsActive(sessions[1])
    /\ chan.exists /\ chan.gen = 1 /\ chan.ws = "open" /\ chan.session = 1
    /\ pending = "none"
    /\ tasks = {}

\* C11: a browser:stop whose sessionId is not the attached session's id
\* changes nothing: the session stays attached, Active and capturing, and no
\* frame is written.
C11_MismatchedStopIgnored ==
    [][(/\ quota'.stop = quota.stop - 1
        /\ chan.exists /\ chan.session # 0
        /\ sessions[chan.session].sid # lastIn'.sid) =>
           UNCHANGED <<chan, pending, sessions, tasks, bout, ws, out, proc, unhandled, jobs>>]_vars

\* browser:stop for B has been received while the session of A is attached,
\* Active and capturing, and no Ack other than A's "started" was written.
C11_StopForOtherSession ==
    /\ lastIn.type = "stop" /\ lastIn.sid = "B"
    /\ chan.exists /\ chan.session # 0
    /\ sessions[chan.session].sid = "A"
    /\ IsActive(sessions[chan.session]) /\ sessions[chan.session].timer
    /\ \A i \in 1..Len(bout) : bout[i].status \notin {"stopped", "error"}

StoppedAcks(q) == {i \in 1..Len(q) : q[i].type = "browser:ack" /\ q[i].status = "stopped"}

\* The session is fully stopped: no browser, no page, no capture timer, and
\* no browser process left up.
FullyStopped(sess) == ~sess.browser /\ ~sess.page /\ ~sess.timer /\ sess.engine # "up"

StartTaken == quota'.start = quota.start - 1

\* The browser connection opens on this step.
ChannelConnects == chan.exists /\ chan.ws = "connecting" /\ chan'.ws = "open"

\* startBrowser is entered on this step for the given session id.
StartExecutes(sid) ==
    /\ Len(sessions') = Len(sessions) + 1
    /\ sessions'[Len(sessions')] = NewSession(sid)
    /\ \E t \in tasks' \ tasks : t.kind = "start" /\ t.s = Len(sessions') /\ t.sid = sid

AttachedActive == chan.exists /\ chan.session # 0 /\ sessions[chan.session].browser /\ sessions[chan.session].page

\* A session becomes the attached one on this step.
SessionAttaches == chan'.session # 0 /\ chan'.session # chan.session

\* C13: a browser:start with no channel creates and connects one and is held
\* pending; a start on a channel still connecting is held pending; the
\* pending start is executed on the step the channel connects; a start on a
\* connected channel is executed at once; and no part of a start's
\* execution, neither the creation of its session nor its attachment,
\* happens on a channel that is not connected.
C13_StartWaitsForChannel ==
    [][/\ (StartTaken /\ ~chan.exists) =>
              /\ chan'.exists /\ chan'.ws = "connecting" /\ chan'.session = 0
              /\ pending' = lastIn'.sid
              /\ UNCHANGED <<sessions, tasks, bout>>
       /\ (StartTaken /\ chan.exists /\ chan.ws = "connecting" /\ ~AttachedActive) =>
              /\ pending' = lastIn'.sid
              /\ UNCHANGED <<chan, sessions, tasks, bout>>
       /\ (ChannelConnects /\ pending # "none") => StartExecutes(pending)
       /\ (StartTaken /\ chan.exists /\ chan.ws = "open" /\ ~AttachedActive) => StartExecutes(lastIn'.sid)
       /\ Len(sessions') # Len(sessions) =>
              /\ chan'.exists /\ chan'.ws = "open"
              /\ \/ ChannelConnects /\ pending # "none"
                 \/ StartTaken /\ chan.ws = "open"
       /\ SessionAttaches => (chan'.exists /\ chan'.ws = "open")]_vars

\* The start sequence t ends on this step without its session being
\* attached: session.start() or attachSession has thrown.
StartFails(t) ==
    /\ t \in tasks /\ t.kind = "start"
    /\ \A u \in tasks' : u.kind = "start" => u.s # t.s
    /\ ~sessions'[t.s].timer

\* C14: when starting or attaching a session fails, one Ack with
\* status=error is written on the browser channel for that sessionId, the
\* pending-start marker is cleared, and nothing escapes the handler: no
\* unhandled rejection, the process keeps running.
C14_StartFailureAcked ==
    [][\A t \in tasks :
          StartFails(t) =>
              /\ bout' = BSend(bout, Frame("browser:ack", t.sid, "error"))
              /\ pending' = "none"
              /\ unhandled' = unhandled
              /\ proc' = proc]_vars

\* C15: a session whose start sequence fails is destroyed: on the step the
\* failure is handled the session is attached to no channel and its browser
\* process is not left up.
C15_FailedStartDestroyed ==
    [][\A t \in tasks :
          StartFails(t) =>
              /\ chan'.session # t.s
              /\ sessions'[t.s].engine # "up"
              /\ ~sessions'[t.s].browser]_vars

\* C16: Runner.disconnect tears the browser channel down first: the attached
\* session's capture is stopped, its stop is called and its attachment
\* cleared while the primary connection is still as it was; the primary
\* connection is given up only after that, and after disconnect the runner
\* holds neither a browser channel nor a primary connection.
C16_DisconnectOrder ==
    [][/\ (proc = "running" /\ proc' = "disconnecting") =>
              /\ ws' = ws
              /\ ~chan'.exists /\ chan'.ws \notin {"connecting", "open"}
              /\ chan.exists => chan'.session = 0
              /\ (chan.exists /\ chan.session # 0) =>
                     /\ ~sessions'[chan.session].timer
                     /\ sessions[chan.session].browser => \E t \in tasks' : t.kind = "cleanup" /\ t.old = chan.session
       /\ ws' # ws /\ proc # "running" =>
              /\ proc = "disconnecting"
              /\ ~chan.exists /\ chan.ws \notin {"connecting", "open"}
              /\ UNCHANGED browserVars
       /\ proc' = "exited" => (ws' = "null" /\ ~chan'.exists)]_vars

\* Disconnect has run with an Active session attached: its capture is off,
\* its stop has been called, and the runner holds neither connection.
C16_DisconnectedWithSession ==
    /\ proc = "exited"
    /\ ws = "null" /\ ~chan.exists
    /\ \E i \in 1..Len(sessions) :
          /\ ~sessions[i].timer
          /\ \E t \in tasks : t.kind = "cleanup" /\ t.old = i
          /\ \E k \in 1..Len(bout) : bout[k].status = "started" /\ bout[k].sid = sessions[i].sid
    /\ Len(out) = 1

\* The browser:hello of channel g has been written.
HelloSent(g) == \E k \in 1..Len(bout) : bout[k].type = "browser:hello" /\ bout[k].gen = g

\* C17: on every browser-channel connection browser:hello is the first
\* outbound frame: every other frame of a channel comes after that channel's
\* hello, and no session is attached to a channel whose hello has not been
\* sent.
C17_HelloFirst ==
    /\ \A i \in 1..Len(bout) :
          bout[i].type # "browser:hello" =>
              \E k \in 1..(i - 1) : bout[k].type = "browser:hello" /\ bout[k].gen = bout[i].gen
    /\ (chan.exists /\ chan.session # 0) => HelloSent(chan.gen)

\* The "started" Acks: one for every session a channel has attached while
\* connected.
StartedAcks == {i \in 1..Len(bout) : bout[i].type = "browser:ack" /\ bout[i].status = "started"}

\* C18: a browser channel serves one session id: all the sessions a channel
\* attaches over its lifetime carry the same id, the one it announced.
C18_OneSessionIdPerChannel ==
    \A i, k \in StartedAcks : bout[i].gen = bout[k].gen => bout[i].sid = bout[k].sid

\* C19: the runner holds a browser channel only while a start is pending, a
\* session is attached, or a start or a stop is still running.
C19_ChannelOnlyWhileNeeded ==
    chan.exists => (pending # "none" \/ chan.session # 0 \/ tasks # {})

\* A browser:input frame is taken on this step.
InputTaken == quota'.input = quota.input - 1

\* C20: a browser:input frame reaches the session's input handler only if a
\* session is attached, the frame's sessionId is that session's id and the
\* session is Active; in every other case nothing changes and nothing is
\* written.
C20_InputFiltered ==
    [][InputTaken =>
          \/ /\ chan.session # 0
             /\ sessions[chan.session].sid = lastIn'.sid
             /\ sessions[chan.session].browser /\ sessions[chan.session].page
          \/ UNCHANGED <<chan, pending, sessions, tasks, bout, ws, out, proc, unhandled, jobs>>]_vars

\* The "close" event of the browser connection is handled on this step.
ChannelCloses == chan.exists /\ ~chan'.exists /\ proc' = "running"

OpsOf(ss) == [i \in 1..Len(ss) |-> ss[i].ops]

\* C22: handleInput on a session that is not Active throws "No active page"
\* and asks nothing of any page; when the channel forwarded the input, the
\* error stays inside handleMessage: no rejection escapes, nothing is
\* written, and the channel keeps its connection and its attachment.
C22_InactiveInputContained ==
    [][(InputTaken /\ chan.session # 0 /\ ~IsActive(sessions[chan.session])) =>
          /\ OpsOf(sessions') = OpsOf(sessions)
          /\ tasks' = tasks
          /\ \/ sessions' = sessions
             \/ sessions' = [sessions EXCEPT ![chan.session].err = "No active page"]
          /\ UNCHANGED <<chan, pending, bout, proc, unhandled, ws, out>>]_vars

\* An input frame was forwarded to a stopped session that is attached to a
\* connected channel: it threw, the page was asked nothing, and the channel
\* is still connected with the session attached.
C22_InputOnStopped ==
    /\ lastIn.type = "input"
    /\ chan.exists /\ chan.ws = "open" /\ chan.session # 0
    /\ sessions[chan.session].err = "No active page"
    /\ sessions[chan.session].engine = "closed"
    /\ sessions[chan.session].ops = <<>>
    /\ proc = "running" /\ ~unhandled

\* The frames written on this step.
NewFrames == {k \in 1..Len(bout') : k > Len(bout)}

\* C23: once detachSession has begun for a session, no browser:traffic event
\* is emitted for it, also not for a response that arrived before the detach
\* and whose body is read after it, and such a late completion raises no
\* error that nobody handles.
C23_NoTrafficAfterDetach ==
    [][/\ \A k \in NewFrames :
              bout'[k].type = "browser:traffic" =>
                  \E i \in 1..Len(sessions) : sessions[i].sid = bout'[k].sid /\ sessions[i].traffic
       /\ \A t \in tasks \ tasks' :
              t.kind = "traffic" => (unhandled' = unhandled /\ proc' = proc)]_vars

\* Job j issues the request of a redirect hop on this step.
HopIssued(j) == jobs'[j].nreq = jobs[j].nreq + 1 /\ jobs[j].nreq > 0

\* C24: the request of every redirect hop carries the method and the body of
\* the Execute message, whatever the redirect status was: the method is never
\* switched to GET and the body never dropped.
C24_HopResendsRequest ==
    [][\A j \in JobIds :
          HopIssued(j) =>
              /\ jobs'[j].wire.method = jobs[j].cfg.method
              /\ jobs'[j].wire.body = jobs[j].cfg.body
              /\ jobs'[j].wire = jobs[j].wire
              /\ jobs'[j].cfg = jobs[j].cfg]_vars

\* A POST with a body has followed a redirect and its current request is
\* again a POST with that body.
C24_PostRedirected ==
    \E j \in JobIds :
        /\ jobs[j].hop > 0
        /\ jobs[j].cfg.method = "POST" /\ jobs[j].cfg.body = "data"
        /\ jobs[j].wire = [method |-> "POST", body |-> "data"]
        /\ jobs[j].req = "sent"

\* C25: a job with followRedirects=true never gets a redirect that carries a
\* Location back as its Result, whatever its httpVersion: the redirect is
\* followed, or the job fails at the redirect limit, on either transport.
C25_RedirectFollowedAnyVersion ==
    \A j \in JobIds :
        \A i \in ResultsOf(j) :
            (/\ out[i].status = "success"
             /\ IsRedirectStatus(out[i].response.status)
             /\ Truthy(out[i].response.location)) => ~jobs[j].cfg.follow

\* The sessions whose frame capture runs on channel g.
Capturing(g) == {i \in 1..Len(sessions) : sessions[i].timer /\ sessions[i].on = g}

\* C26: attachSession on a channel that holds a session detaches it and
\* waits for its stop: while it waits the new session is neither attached nor
\* capturing, when it goes on the old session is fully stopped, and no
\* channel ever has two captures running.
C26_AttachReplaces ==
    /\ \A t \in tasks :
           (t.kind = "start" /\ t.pc = "detach") => (chan.session # t.s /\ ~sessions[t.s].timer)
    /\ \A g \in 1..chan.gen : Cardinality(Capturing(g)) <= 1

\* detachSession is called on this step.
DetachCalled == quota'.detach = quota.detach - 1

\* The calls of detachSession that are waiting for the session's stop.
Detaching == {t \in tasks : t.kind = "detach"}

StartCalled(i) == quota'.start = quota.start - 1 /\ lastIn'.job = i

\* stop() is called on session i on this step.
StopCalled(i) == quota'.stop = quota.stop - 1 /\ lastIn'.job = i

\* A call of stop() on session i returns on this step: at once when the
\* session holds no browser, after browser.close() otherwise.
StopReturns(i) ==
    \/ StopCalled(i) /\ ~sessions[i].browser
    \/ \E t \in tasks \ tasks' : t.kind = "sstop" /\ t.old = i

\* The calls of start() on session i that have not returned.
Starting(i) == {t \in tasks : t.kind = "sstart" /\ t.s = i}

\* C28: start() on a session that holds no browser is accepted and ends with
\* the session Active or with an error and the session not Active; start() on
\* a session that holds a browser throws "Browser already started" and
\* changes nothing else; stop() cancels the capture timer, and when it
\* returns the session is Stopped: no browser, no page, and no start that
\* will still give it a browser; stop() on a Stopped session changes nothing.
C28_SessionLifecycle ==
    [][\A i \in 1..Len(sessions) :
          /\ (StartCalled(i) /\ sessions[i].browser) =>
                 /\ sessions' = [sessions EXCEPT ![i].err = "Browser already started"]
                 /\ tasks' = tasks
          /\ (StartCalled(i) /\ ~sessions[i].browser) =>
                 /\ sessions' = sessions
                 /\ \E t \in tasks' \ tasks : t.kind = "sstart" /\ t.s = i /\ t.pc = "launch"
          /\ \A t \in Starting(i) \ tasks' :
                 \/ \E u \in tasks' : u.kind = "sstart" /\ u.s = i /\ u.tag = t.tag
                 \/ IsActive(sessions'[i])
                 \/ sessions'[i].err = "start failed" /\ ~IsActive(sessions'[i])
          /\ StopCalled(i) => ~sessions'[i].timer
          /\ StopReturns(i) =>
                 /\ ~sessions'[i].browser /\ ~sessions'[i].page
                 /\ \A t \in tasks' : (t.kind = "sstart" /\ t.s = i) => t.pc # "launch"
          /\ (StopReturns(i) /\ ~sessions[i].browser /\ ~sessions[i].timer) => sessions' = sessions]_vars

\* The browser of session i is terminated by an outside actor on this step.
TerminatedOutside(i) == sessions[i].engine = "up" /\ sessions'[i].engine = "gone"

\* C29: the registered close callback of a session is invoked on exactly the
\* steps on which its browser is terminated from outside; the session's own
\* stop() does not invoke it.
C29_CloseCallback ==
    [][\A i \in 1..Len(sessions) :
          /\ sessions'[i].notified \in {sessions[i].notified, sessions[i].notified + 1}
          /\ sessions'[i].notified # sessions[i].notified <=> (sessions[i].onClose /\ TerminatedOutside(i))]_vars

\* C30: the page operations of a session are those of its input actions in
\* the order the frames arrived, one action after the other: no operation of
\* a later action comes before an operation of an earlier one.  An action is
\* numbered by the frames still to come when it arrived, so earlier actions
\* carry the larger number.
C30_InputsSerialized ==
    \A i \in 1..Len(sessions) :
        \A a, b \in 1..Len(sessions[i].ops) :
            a < b => sessions[i].ops[a].n >= sessions[i].ops[b].n

\* The capture events of the given type written for session sid.
EventsOf(type, sid) == {k \in 1..Len(bout) : bout[k].type = type /\ bout[k].sid = sid}

\* C31: the browser:traffic events of a session are written in the order in
\* which the responses and failures occurred on the page: an event of a later
\* response never comes before the event of an earlier one.
C31_TrafficInOrder ==
    \A sid \in SessionIds :
        \A a, b \in EventsOf("browser:traffic", sid) :
            a < b => bout[a].n >= bout[b].n

\* C32: a browser:frame is written for a session only while its capture
\* timer is set: once detachSession or cleanup has cancelled the timer no
\* frame of that session is written any more, also not the one whose
\* screenshot was in progress.
C32_NoFrameAfterDetach ==
    [][\A k \in NewFrames :
          bout'[k].type = "browser:frame" =>
              \E i \in 1..Len(sessions) : sessions[i].sid = bout'[k].sid /\ sessions[i].timer]_vars

\* A control frame of no known type is dispatched.
OtherTaken == quota'.other = quota.other - 1

\* C33: a control frame that cannot be decoded or is of no known type is
\* dropped: nothing is written, no job, channel or session changes, and the
\* control connection and the process stay as they are, so that the frames
\* after it are still processed.
C33_OtherDropped ==
    [][OtherTaken =>
          /\ out' = out /\ bout' = bout
          /\ jobs' = jobs /\ chan' = chan /\ pending' = pending
          /\ sessions' = sessions /\ tasks' = tasks
          /\ ws' = ws /\ proc' = proc /\ unhandled' = unhandled]_vars

\* The start sequence t finishes on this step: it attaches, or it fails.
StartFinishes(t) ==
    /\ t \in tasks /\ t.kind = "start" /\ t.pc \in {"launch", "context", "page"}
    /\ \A u \in tasks' : u.kind = "start" => u.s # t.s

\* C34: a session whose start sequence finishes after the browser channel
\* has closed does not outlive the channel: its browser is not left up
\* unattached, and finding the channel gone raises no unhandled error.
C34_StartOutlivesNoChannel ==
    [][\A t \in tasks :
          (StartFinishes(t) /\ ~chan.exists) =>
              /\ sessions'[t.s].engine # "up"
              /\ unhandled' = unhandled
              /\ proc' = proc]_vars

\* The Acks written for a start of session sid, started or error.
StartAcksOf(sid) == {k \in 1..Len(bout) : bout[k].type = "browser:ack" /\ bout[k].sid = sid /\ bout[k].status \in {"started", "error"}}

\* C35: every browser:start that is not suppressed as a duplicate leads to
\* an Ack for its sessionId, started or error: from a state in which the
\* start for sid is the outstanding one, one more such Ack is eventually
\* written.
C35_StartEventuallyAcked ==
    \A sid \in SessionIds : \A n \in 0..MaxStarts :
        (pending = sid /\ Cardinality(StartAcksOf(sid)) = n) ~> (Cardinality(StartAcksOf(sid)) > n)

====
